---- MODULE Spec2Model ----
(***************************************************************************)
(* Verifying-paymaster service: the sponsorship and gas-accounting engine  *)
(* (api.Signer) run by concurrent request handlers against one account     *)
(* store.  Every handler step is one stretch of code between two accesses   *)
(* to the store, the chain client or the signing key.                       *)
(***************************************************************************)
EXTENDS Integers, Sequences, FiniteSets, TLC

(* ------------------------------ bounds --------------------------------- *)

\* calls received in one behaviour
MaxCalls == 2
\* maxFeePerGas of a user operation ranges over 1..MaxFee
MaxFee == 2
\* concurrently running request handlers
Handlers == {"h1", "h2"}
\* lower-cased account addresses
Addrs == {"0xa", "0xb"}
\* ids of the VIP NFTs that exist on chain
VipTokens == {0}

(* ------------------------- program constants --------------------------- *)

validTimeDelay == 86400
\* the literal of the rate-limit comparisons
RequestWindow == 86400
PreVerificationGas == 52304
VerificationGas == 100000
CallGas == 33100
\* Signer.CreateGas, Signer.MaxGas, Signer.MaxVipGas as configured
CreateGas == 400000
MaxGas == 600000
MaxVipGas == 800000

(* ------------------------------- state --------------------------------- *)

VARIABLES
    store,      \* account table: address -> Account record, or Nil
    now,        \* time.Now().Unix()
    call,       \* handler -> the call it is running (position and locals)
    reply,      \* the call that returned last, as it stood at its return
    started,    \* calls received so far
    audit       \* history, per address: the last grant and what was authorized since

vars == <<store, now, call, reply, started, audit>>

Nil == [nil |-> TRUE]

Fees == 1..MaxFee

\* the clock readings: the time of the persisted grants, the last second of the
\* request window that opened then, and its end
TimePoints == {0, RequestWindow - 1, RequestWindow}

(* ---------------- big.Int <-> base-10 string conversions ---------------- *)

\* a string is the sequence of its character codes: "0".."9" are 48..57, "-" is 45

\* the decimal digits of n >= 0, most significant first
RECURSIVE Digits(_)
Digits(n) ==
    IF n < 10 THEN <<48 + n>> ELSE Append(Digits(n \div 10), 48 + (n % 10))

\* (*big.Int).String()
BigString(n) == IF n < 0 THEN <<45>> \o Digits(0 - n) ELSE Digits(n)

\* the number a sequence of digits denotes
RECURSIVE Value(_)
Value(s) ==
    IF Len(s) = 0 THEN 0
    ELSE 10 * Value(SubSeq(s, 1, Len(s) - 1)) + (s[Len(s)] - 48)

\* (*big.Int).SetString(s, 10), on the strings String() writes
SetString(s) ==
    IF Len(s) > 0 /\ s[1] = 45 THEN 0 - Value(Tail(s)) ELSE Value(s)

(* --------------------------- account store ----------------------------- *)

\* models.Account.FindByAddress: the record stored under the address, or nil
FindByAddress(st, address) == st[address]

\* models.Account.FindByVipID: the addresses whose record is linked to the token
FindByVipID(st, id) ==
    {a \in Addrs : st[a] # Nil /\ st[a].VipID = id}

\* repository Save(account): writes the whole record under its address
Save(st, account) == [st EXCEPT ![account.Address] = account]

\* VipNFT.TokenOfOwnerByIndex(addr, 0): the answers the chain can give for an
\* address.  Tokens change hands on chain at any time, so between two queries any
\* token may have come to the address or left it: the first token it owns, or -1
\* for the error returned when it owns none or the query fails (lines 270-276)
TokenOfOwnerByIndex(address) == VipTokens \cup {-1}

(* ------------------------------ handlers ------------------------------- *)

IdleCall ==
    [pc |-> "idle", method |-> "", addr |-> "", fee |-> 0,
     read |-> Nil, account |-> Nil, lastVip |-> -1, slotTaken |-> FALSE,
     checkedAt |-> 0, gas |-> 0, remainGas |-> 0, totalGas |-> 0,
     result |-> "", saves |-> 0, hashed |-> FALSE, signed |-> FALSE,
     validUntil |-> 0, validAfter |-> 0, gasRemain |-> Nil]

\* grantAt is the time of the last grant, -1 when there was none
NoAudit == [grantRemain |-> 0, grantUsed |-> 0, authSum |-> 0, grantAt |-> -1]

\* an account as Pm_requestGas left it at time 0 (lines 301-311), enabled or since
\* disabled by the operator
Persisted(address, enable) ==
    [Address |-> address, Enable |-> enable, UsedGas |-> BigString(0),
     RemainGas |-> BigString(MaxGas), LastRequest |-> 0, VipID |-> -1]

\* NewSigner attaches to the account table as earlier runs left it: every address
\* has no account, or an account granted at time 0.  Addresses are interchangeable,
\* so of two tables that differ by renaming the addresses one is listed
Tables ==
    {[a \in Addrs |-> IF a \in held THEN Persisted(a, a \in enabled) ELSE Nil] :
        held \in {{}, {"0xa"}, Addrs}, enabled \in {{}, {"0xa"}, Addrs}}

Init ==
    /\ store \in Tables
    /\ now = 0
    /\ call = [p \in Handlers |-> IdleCall]
    /\ reply = IdleCall
    /\ started = 0
    /\ audit = [a \in Addrs |->
                  IF store[a] = Nil THEN NoAudit
                  ELSE [grantRemain |-> MaxGas, grantUsed |-> 0, authSum |-> 0,
                        grantAt |-> 0]]

Finish(c, result) == [c EXCEPT !.pc = "done", !.result = result]

\* a handler takes the next call when it runs none
Ready(p) == call[p].pc = "idle"

\* handler p moves on to c; a call that has returned leaves the handler free
Continue(p, c) ==
    /\ call' = [call EXCEPT ![p] = IF c.pc = "done" THEN IdleCall ELSE c]
    /\ reply' = IF c.pc = "done" THEN c ELSE reply

(* ---------------- Pm_sponsorUserOperation (lines 124-233) --------------- *)

\* lines 162-167: (preVerificationGas + verificationGas + callGas) * MaxFeePerGas
TotalGas(fee) == (PreVerificationGas + VerificationGas + CallGas) * fee

\* mutant: the allowance check left out
InsufficientGas_Unchecked(totalGas, remainGas) == FALSE

\* line 181: totalGas.Cmp(remainGas) > 0
InsufficientGas(totalGas, remainGas) == totalGas > remainGas

\* mutant: the operands of the subtraction swapped
Deduct_SwappedSub(account, remainGas, totalGas) ==
    [account EXCEPT
        !.UsedGas = BigString(SetString(account.UsedGas) + totalGas),
        !.RemainGas = BigString(totalGas - remainGas)]

\* lines 184-186: the deduction, written back into the record as strings
Deduct(account, remainGas, totalGas) ==
    [account EXCEPT
        !.UsedGas = BigString(SetString(account.UsedGas) + totalGas),
        !.RemainGas = BigString(remainGas - totalGas)]

\* lines 126-186: parse the operation, read the account, check the allowance
SponsorCheck(c, sender, fee, parsed, account) ==
    LET c0 == [c EXCEPT !.method = "pm_sponsorUserOperation"]
        c1 == [c0 EXCEPT !.addr = sender, !.fee = fee]
    IN  IF ~parsed THEN Finish(c0, "invalid user operation")
        ELSE IF account = Nil THEN Finish([c1 EXCEPT !.read = account], "insufficient gas")
        ELSE LET remainGas == SetString(account.RemainGas)
                 totalGas == TotalGas(fee)
                 c2 == [c1 EXCEPT !.read = account, !.remainGas = remainGas,
                                  !.totalGas = totalGas]
             IN  IF InsufficientGas(totalGas, remainGas)
                 THEN Finish(c2, "insufficient gas")
                 ELSE [c2 EXCEPT !.pc = "sp_save",
                                 !.account = Deduct(account, remainGas, totalGas)]

\* mutant: the error of Save ignored
SponsorSaved_ErrorIgnored(c, saved) ==
    [c EXCEPT !.pc = "sp_hash", !.saves = IF saved THEN c.saves + 1 ELSE c.saves]

\* lines 187-191: what the call does once Save has returned
SponsorSaved(c, saved) ==
    IF saved THEN [c EXCEPT !.pc = "sp_hash", !.saves = c.saves + 1]
    ELSE Finish(c, "save account error")

(* ------------- bytes of the authorization (lines 26-35, 196-232) -------- *)

\* a byte string is the sequence of its bytes, 0..255

\* n as big-endian bytes, left-padded with zeros to the width
RECURSIVE BigEndian(_, _)
BigEndian(n, width) ==
    IF width = 0 THEN <<>> ELSE Append(BigEndian(n \div 256, width - 1), n % 256)

\* Signer.Contract.Bytes(): the 20 bytes of the paymaster's address
Contract == [i \in 1..20 |-> 160 + i]

\* line 34: make([]byte, 65)
emptySignature == [i \in 1..65 |-> 0]

\* mutant: the two arguments packed in the other order
Pack_Swapped(validUntil, validAfter) ==
    BigEndian(validAfter, 32) \o BigEndian(validUntil, 32)

\* timeRangeABI.Pack (lines 29-33, 198): two uint256 words, validUntil first
Pack(validUntil, validAfter) ==
    BigEndian(validUntil, 32) \o BigEndian(validAfter, 32)

\* utils.SignMessage over the hash of the operation and its time range: 65 bytes
\* r || s || v, none of them all zero
SignMessage(validUntil, validAfter) ==
    [i \in 1..65 |-> IF i = 65 THEN 27 ELSE (validUntil + validAfter + i) % 256]

\* the digit of a nibble: "0".."9" are 48..57, "a".."f" are 97..102
HexDigit(d) == IF d < 10 THEN 48 + d ELSE 87 + d

\* hexutil.Encode: "0x" (48, 120) and two digits a byte, the high nibble first
Encode(bytes) ==
    [i \in 1..(2 + 2 * Len(bytes)) |->
        IF i = 1 THEN 48
        ELSE IF i = 2 THEN 120
        ELSE IF i % 2 = 1 THEN HexDigit(bytes[(i - 1) \div 2] \div 16)
        ELSE HexDigit(bytes[(i - 1) \div 2] % 16)]

\* lines 196-228 for each reading t of the clock: the time range, the
\* placeholder handed to Paymaster.GetHash, the signature and the encoded result
Authorization ==
    [t \in TimePoints |->
        LET validAfter == t
            validUntil == validAfter + validTimeDelay
            timeRangeData == Pack(validUntil, validAfter)
            signature == SignMessage(validUntil, validAfter)
        IN  [validAfter |-> validAfter,
             validUntil |-> validUntil,
             placeholder |-> Contract \o timeRangeData \o emptySignature,
             signature |-> signature,
             paymasterAndData |-> Encode(Contract \o timeRangeData \o signature)]]

\* lines 196-232: the time range and the placeholder, Paymaster.GetHash over
\* them, utils.SignMessage over the hash, and the result
SponsorSigned(c, t, hashOk, signOk) ==
    LET c1 == [c EXCEPT !.validAfter = t, !.validUntil = t + validTimeDelay]
    IN  IF ~hashOk THEN Finish(c1, "get hash error")
        ELSE IF ~signOk THEN Finish([c1 EXCEPT !.hashed = TRUE], "sign error")
        ELSE Finish([c1 EXCEPT !.hashed = TRUE, !.signed = TRUE], "authorization")

\* lines 196-232 with the bytes spelled out: the returned call, with the
\* placeholder of line 202 and, for an authorization, the signature of line 221
\* and the paymasterAndData of line 228
SponsorAuthorized(c, t, hashOk, signOk) ==
    LET d == SponsorSigned(c, t, hashOk, signOk)
        authorized == d.result = "authorization"
    IN  d @@ [placeholder |-> Authorization[t].placeholder,
              signature |-> IF authorized THEN Authorization[t].signature ELSE <<>>,
              paymasterAndData |->
                  IF authorized THEN Authorization[t].paymasterAndData ELSE <<>>]

SponsorFind(p) ==
    /\ Ready(p)
    /\ started < MaxCalls
    /\ \E sender \in Addrs, fee \in Fees :
         \/ Continue(p, SponsorCheck(IdleCall, sender, fee, FALSE, Nil))
         \/ Continue(p, SponsorCheck(IdleCall, sender, fee, TRUE, Nil))
         \/ Continue(p, SponsorCheck(IdleCall, sender, fee, TRUE, FindByAddress(store, sender)))
    /\ started' = started + 1
    /\ UNCHANGED <<store, now, audit>>

SponsorSave(p) ==
    /\ call[p].pc = "sp_save"
    /\ \E saved \in BOOLEAN :
         /\ Continue(p, SponsorSaved(call[p], saved))
         /\ store' = IF saved THEN Save(store, call[p].account) ELSE store
    /\ UNCHANGED <<now, started, audit>>

\* mutant: a failed hash or signature restores the account as it was read
SponsorSign_Rollback(p) ==
    /\ call[p].pc = "sp_hash"
    /\ \E hashOk \in BOOLEAN, signOk \in BOOLEAN :
         /\ Continue(p, SponsorSigned(call[p], now, hashOk, signOk))
         /\ store' = IF hashOk /\ signOk THEN store ELSE Save(store, call[p].read)
         /\ audit' = IF hashOk /\ signOk
                     THEN [audit EXCEPT ![call[p].addr].authSum = @ + call[p].totalGas]
                     ELSE audit
    /\ UNCHANGED <<now, started>>

\* lines 196-233
SponsorSign(p) ==
    /\ call[p].pc = "sp_hash"
    /\ \E hashOk \in BOOLEAN, signOk \in BOOLEAN :
         /\ Continue(p, SponsorSigned(call[p], now, hashOk, signOk))
         /\ audit' = IF hashOk /\ signOk
                     THEN [audit EXCEPT ![call[p].addr].authSum = @ + call[p].totalGas]
                     ELSE audit
    /\ UNCHANGED <<store, now, started>>

(* --------------------- Pm_requestGas (lines 263-318) -------------------- *)

\* mutant: the comparison reversed
FrequentRequest_Reversed(account, t) == account.LastRequest + RequestWindow < t

\* lines 285 and 294: account.LastRequest.Unix()+86400 > time.Now().Unix()
FrequentRequest(account, t) == account.LastRequest + RequestWindow > t

\* mutant: the VIP tier left out
SelectGas_NoVip(exists, lastVip) ==
    IF exists THEN MaxGas ELSE CreateGas

\* lines 278, 288, 298-300: the allowance of the caller's tier
SelectGas(exists, lastVip) ==
    IF lastVip # -1 THEN MaxVipGas
    ELSE IF exists THEN MaxGas
    ELSE CreateGas

\* lines 301-305: the record of a first-time caller
NewAccount(address) ==
    [Address |-> address, Enable |-> TRUE, UsedGas |-> BigString(0), RemainGas |-> <<>>,
     LastRequest |-> 0, VipID |-> 0]

\* mutant: the enabled test left out
RequestCheck_EnableSkipped(c, last, t) ==
    LET c1 == [c EXCEPT !.checkedAt = t]
    IN  IF c.lastVip # -1 /\ last # Nil /\ c.read = Nil
        THEN Finish(c1, "panic: nil pointer dereference")
        ELSE IF c.lastVip # -1 /\ last # Nil /\ FrequentRequest(c.read, t)
        THEN Finish(c1, "frequent requests with NFT")
        ELSE IF c.read # Nil /\ FrequentRequest(c.read, t)
        THEN Finish(c1, "frequent requests")
        ELSE [c1 EXCEPT !.pc = "rg_save",
                        !.gas = SelectGas(c.read # Nil, c.lastVip),
                        !.account = IF c.read # Nil THEN c.read ELSE NewAccount(c.addr)]

\* lines 278-306: the checks made once the account (c.read), the caller's token
\* (c.lastVip) and the token's linked account (last) are known
RequestCheck(c, last, t) ==
    LET c1 == [c EXCEPT !.checkedAt = t]
    IN  IF c.lastVip # -1 /\ last # Nil /\ c.read = Nil
        THEN Finish(c1, "panic: nil pointer dereference")
        ELSE IF c.lastVip # -1 /\ last # Nil /\ FrequentRequest(c.read, t)
        THEN Finish(c1, "frequent requests with NFT")
        ELSE IF c.read # Nil /\ ~c.read.Enable
        THEN Finish(c1, "account disabled")
        ELSE IF c.read # Nil /\ FrequentRequest(c.read, t)
        THEN Finish(c1, "frequent requests")
        ELSE [c1 EXCEPT !.pc = "rg_save",
                        !.gas = SelectGas(c.read # Nil, c.lastVip),
                        !.account = IF c.read # Nil THEN c.read ELSE NewAccount(c.addr)]

\* lines 308-310: the record handed to Save
Granted(c, t) ==
    [c.account EXCEPT !.RemainGas = BigString(c.gas), !.LastRequest = t,
                      !.VipID = c.lastVip]

\* lines 311-317: what the call does once Save has returned
RequestSaved(c, saved) ==
    IF saved THEN Finish([c EXCEPT !.saves = c.saves + 1], "granted")
    ELSE Finish(c, "save account error")

\* lines 264-268
RequestFind(p) ==
    /\ Ready(p)
    /\ started < MaxCalls
    /\ \E addr \in Addrs, findErr \in BOOLEAN :
         LET c1 == [IdleCall EXCEPT !.method = "pm_requestGas", !.addr = addr]
         IN  Continue(p, IF findErr THEN Finish(c1, "query account error")
                         ELSE [c1 EXCEPT !.pc = "rg_vip",
                                         !.read = FindByAddress(store, addr)])
    /\ started' = started + 1
    /\ UNCHANGED <<store, now, audit>>

\* lines 269-279, and for a caller without token lines 290-306
RequestVip(p) ==
    /\ call[p].pc = "rg_vip"
    /\ \E lastVip \in TokenOfOwnerByIndex(call[p].addr) :
         LET c1 == [call[p] EXCEPT !.lastVip = lastVip]
         IN  Continue(p, IF lastVip # -1 THEN [c1 EXCEPT !.pc = "rg_findvip"]
                         ELSE RequestCheck(c1, Nil, now))
    /\ UNCHANGED <<store, now, started, audit>>

\* history: another address is linked to the token and was granted within the window
SlotTaken(st, address, id, t) ==
    \E b \in FindByVipID(st, id) : b # address /\ st[b].LastRequest + RequestWindow > t

\* lines 280-306 for a caller holding a token
RequestFindVip(p) ==
    /\ call[p].pc = "rg_findvip"
    /\ LET c == [call[p] EXCEPT
                   !.slotTaken = SlotTaken(store, call[p].addr, call[p].lastVip, now)]
       IN  \/ Continue(p, Finish(call[p], "query account by vip id error"))
           \/ \E last \in {store[a] : a \in FindByVipID(store, c.lastVip)} :
                Continue(p, RequestCheck(c, last, now))
           \/ /\ FindByVipID(store, c.lastVip) = {}
              /\ Continue(p, RequestCheck(c, Nil, now))
    /\ UNCHANGED <<store, now, started, audit>>

\* lines 308-317
RequestSave(p) ==
    /\ call[p].pc = "rg_save"
    /\ \E saved \in BOOLEAN :
         LET account == Granted(call[p], now)
         IN  /\ Continue(p, RequestSaved([call[p] EXCEPT !.account = account], saved))
             /\ store' = IF saved THEN Save(store, account) ELSE store
             /\ audit' = IF saved
                         THEN [audit EXCEPT ![account.Address] =
                                 [grantRemain |-> call[p].gas,
                                  grantUsed |-> SetString(account.UsedGas),
                                  authSum |-> 0,
                                  grantAt |-> now]]
                         ELSE audit
    /\ UNCHANGED <<now, started>>

(* --------------------- Pm_gasRemain (lines 235-253) --------------------- *)

\* the GasRemain struct returned
GasRemain(remain, used, lastRequest) ==
    [Remain |-> remain, Used |-> used, LastRequest |-> lastRequest]

\* mutant: the enabled test left out
GasRemained_DisabledShown(c, findErr, account) ==
    IF findErr THEN Finish(c, "query account error")
    ELSE IF account = Nil
    THEN Finish([c EXCEPT !.read = account,
                          !.gasRemain = GasRemain(<<48>>, <<48>>, 0)], "gas remain")
    ELSE Finish([c EXCEPT !.read = account,
                          !.gasRemain = GasRemain(account.RemainGas, account.UsedGas,
                                                  account.LastRequest)], "gas remain")

\* lines 237-252: what the call returns once FindByAddress has returned; "0" is <<48>>
GasRemained(c, findErr, account) ==
    IF findErr THEN Finish(c, "query account error")
    ELSE IF account = Nil \/ ~account.Enable
    THEN Finish([c EXCEPT !.read = account,
                          !.gasRemain = GasRemain(<<48>>, <<48>>, 0)], "gas remain")
    ELSE Finish([c EXCEPT !.read = account,
                          !.gasRemain = GasRemain(account.RemainGas, account.UsedGas,
                                                  account.LastRequest)], "gas remain")

\* lines 235-253
GasRemainFind(p) ==
    /\ Ready(p)
    /\ started < MaxCalls
    /\ \E addr \in Addrs, findErr \in BOOLEAN :
         LET c1 == [IdleCall EXCEPT !.method = "pm_gasRemain", !.addr = addr]
         IN  Continue(p, GasRemained(c1, findErr, FindByAddress(store, addr)))
    /\ started' = started + 1
    /\ UNCHANGED <<store, now, audit>>

(* ---------------------------- environment ------------------------------ *)

\* the positions whose next step calls time.Now() (lines 196, 285, 294, 309)
ClockReads == {"sp_hash", "rg_vip", "rg_findvip", "rg_save"}

\* the clock advances; only a handler about to read it can tell when it did
Tick ==
    /\ \E p \in Handlers : call[p].pc \in ClockReads
    /\ \E t \in TimePoints : t > now /\ now' = t
    /\ UNCHANGED <<store, call, reply, started, audit>>

Next ==
    \/ \E p \in Handlers : SponsorFind(p)
    \/ \E p \in Handlers : SponsorSave(p)
    \/ \E p \in Handlers : SponsorSign(p)
    \/ \E p \in Handlers : RequestFind(p)
    \/ \E p \in Handlers : RequestVip(p)
    \/ \E p \in Handlers : RequestFindVip(p)
    \/ \E p \in Handlers : RequestSave(p)
    \/ \E p \in Handlers : GasRemainFind(p)
    \/ Tick

Spec == Init /\ [][Next]_vars

(* --------- the sponsored calls alone, with the bytes they return -------- *)

\* lines 196-233, with the bytes
SponsorAuthorize(p) ==
    /\ call[p].pc = "sp_hash"
    /\ \E hashOk \in BOOLEAN, signOk \in BOOLEAN :
         /\ Continue(p, SponsorAuthorized(call[p], now, hashOk, signOk))
         /\ audit' = IF hashOk /\ signOk
                     THEN [audit EXCEPT ![call[p].addr].authSum = @ + call[p].totalGas]
                     ELSE audit
    /\ UNCHANGED <<store, now, started>>

NextAuth ==
    \/ \E p \in Handlers : SponsorFind(p)
    \/ \E p \in Handlers : SponsorSave(p)
    \/ \E p \in Handlers : SponsorAuthorize(p)
    \/ Tick

SpecAuth == Init /\ [][NextAuth]_vars

(* ============ the JSON-RPC dispatcher: Process (jsonrpc.go) ============= *)

\* In SpecRpc the handlers run Process: call[p] is the request handler p is
\* serving (position and locals), reply the request that ended last.

\* parameters in one request: 0..MaxParams
MaxParams == 2

\* the path keys a request can carry; ApiKeys is the key table
Keys == {"", "k1", "k2", "k3"}
ApiKeys == [k \in {"k1", "k2"} |-> [Key |-> k, Enable |-> (k = "k1")]]

\* models.ApiKeys.FindByKey: the stored key record, or nil
FindByKey(key) == IF key \in DOMAIN ApiKeys THEN ApiKeys[key] ELSE Nil

\* what json.Unmarshal makes of a JSON value
WireTypes == {"number", "string", "object", "array"}

\* the reflect.Kind of a parameter: the integer kinds of lines 132-206 and
\* 235-308 are converted alike
IntKinds == {"Int", "Int8", "Int16", "Int32", "Int64",
             "Uint", "Uint8", "Uint16", "Uint32", "Uint64"}

\* the operations of Signer (part_000 lines 124, 235, 255, 263) with the kinds of
\* their parameters.  Process resolves operations by reflection, whatever their
\* parameters: beside the four of Signer the table holds one operation for each
\* further branch of the kind switch, so that every branch is taken
Operations ==
    [m \in {"Pm_sponsorUserOperation", "Pm_gasRemain", "Pm_config", "Pm_requestGas",
            "Op_float32", "Op_float64", "Op_int64", "Op_interface", "Op_slice",
            "Op_bool"} |->
        CASE m = "Pm_sponsorUserOperation" -> <<"Map", "String">>
          [] m = "Pm_gasRemain" -> <<"String">>
          [] m = "Pm_config" -> <<>>
          [] m = "Pm_requestGas" -> <<"String">>
          [] m = "Op_float32" -> <<"Float32">>
          [] m = "Op_float64" -> <<"Float64">>
          [] m = "Op_int64" -> <<"Int64">>
          [] m = "Op_interface" -> <<"Interface">>
          [] m = "Op_slice" -> <<"Slice">>
          [] m = "Op_bool" -> <<"Bool">>]

\* the method names requests carry
WireMethods ==
    {"pm_sponsorUserOperation", "pm_gasRemain", "pm_config", "pm_requestGas",
     "Pm_config", "pm_unknown", "op_float32", "op_float64", "op_int64",
     "op_interface", "op_slice", "op_bool"}

\* cases.Title(language.Und, cases.NoLower): the first letter in upper case, the
\* rest as it is
Title(method) ==
    CASE method = "pm_sponsorUserOperation" -> "Pm_sponsorUserOperation"
      [] method = "pm_gasRemain" -> "Pm_gasRemain"
      [] method = "pm_config" -> "Pm_config"
      [] method = "pm_requestGas" -> "Pm_requestGas"
      [] method = "pm_unknown" -> "Pm_unknown"
      [] method = "op_float32" -> "Op_float32"
      [] method = "op_float64" -> "Op_float64"
      [] method = "op_int64" -> "Op_int64"
      [] method = "op_interface" -> "Op_interface"
      [] method = "op_slice" -> "Op_slice"
      [] method = "op_bool" -> "Op_bool"
      [] OTHER -> method

\* the parameter lists of a request
RECURSIVE ParamLists(_)
ParamLists(n) ==
    IF n = 0 THEN {<<>>}
    ELSE ParamLists(n - 1) \cup
         {Append(ps, w) : ps \in {q \in ParamLists(n - 1) : Len(q) = n - 1},
                          w \in WireTypes}

IdleRequest ==
    [pc |-> "idle", key |-> "", apiKey |-> Nil, keyErr |-> FALSE, id |-> "null",
     method |-> "", target |-> "", params |-> <<>>, args |-> <<>>,
     invoked |-> FALSE, outcome |-> Nil, response |-> Nil, responses |-> 0,
     panic |-> ""]

\* Process itself reads the key table only; the account table is as NewSigner
\* found it, here with every address holding an enabled account
InitRpc ==
    /\ store = [a \in Addrs |-> Persisted(a, TRUE)]
    /\ now = 0
    /\ call = [p \in Handlers |-> IdleRequest]
    /\ reply = IdleRequest
    /\ started = 0
    /\ audit = [a \in Addrs |-> NoAudit]

\* lines 20-31: the error envelope
jsonrpcError(code, message, data, id) ==
    [jsonrpc |-> "2.0", result |-> Nil,
     error |-> [code |-> code, message |-> message, data |-> data], id |-> id]

\* lines 331-341: the success envelope
jsonrpcResult(result, id) == [jsonrpc |-> "2.0", result |-> result, id |-> id]

\* c.JSON(...); return
Respond(c, envelope) ==
    [c EXCEPT !.pc = "done", !.response = envelope, !.responses = c.responses + 1]

\* a panic unwinds the handler before it writes an envelope
Panic(c, what) == [c EXCEPT !.pc = "done", !.panic = what]

\* mutant: a disabled key let through
KeyGate_DisabledAccepted(c, apiKey, err) ==
    LET c1 == [c EXCEPT !.apiKey = apiKey, !.keyErr = err]
    IN  IF err THEN Respond(c1, jsonrpcError(-32700, "Database error", "Query apikey error", "null"))
        ELSE IF apiKey = Nil
        THEN Respond(c1, jsonrpcError(-32700, "Key error", "Apikey error", "null"))
        ELSE [c1 EXCEPT !.pc = "body"]

\* lines 52-60: what Process does once FindByKey has returned
KeyGate(c, apiKey, err) ==
    LET c1 == [c EXCEPT !.apiKey = apiKey, !.keyErr = err]
    IN  IF err THEN Respond(c1, jsonrpcError(-32700, "Database error", "Query apikey error", "null"))
        ELSE IF apiKey = Nil \/ ~apiKey.Enable
        THEN Respond(c1, jsonrpcError(-32700, "Key error", "Apikey error", "null"))
        ELSE [c1 EXCEPT !.pc = "body"]

\* an argument of the call: the coerced wire value, the zero value of the kind, or
\* the zero reflect.Value of a slot of args that was never assigned
Arg(kind, wire) == [status |-> "set", kind |-> kind, from |-> wire]
Unset == [status |-> "unset"]

\* the branch answers -32602
Invalid == [status |-> "invalid"]

\* lines 115-315, one pass of the switch
Coerce(kind, wire) ==
    CASE kind = "Float32" -> Invalid
      [] kind = "Float64" -> IF wire = "number" THEN Arg(kind, wire) ELSE Invalid
      [] kind \in IntKinds -> IF wire = "number" THEN Arg(kind, wire) ELSE Invalid
      [] kind = "Interface" -> Arg(kind, wire)
      [] kind = "Map" -> IF wire = "object" THEN Arg(kind, wire) ELSE Invalid
      [] kind = "Slice" -> IF wire = "array" THEN Arg(kind, wire) ELSE Invalid
      [] kind = "String" -> IF wire = "string" THEN Arg(kind, wire) ELSE Arg(kind, "zero")
      [] OTHER -> Unset

\* lines 112-317: the loop over params from position i on (positions count from
\* 1 here, from 0 in the envelope)
RECURSIVE CoerceFrom(_, _, _, _)
CoerceFrom(i, kinds, params, args) ==
    IF i > Len(params) THEN [status |-> "coerced", args |-> args]
    ELSE IF i > Len(kinds) THEN [status |-> "panic", args |-> args]
    ELSE LET a == Coerce(kinds[i], params[i])
         IN  IF a = Invalid
             THEN [status |-> "invalid", index |-> i - 1, to |-> kinds[i], args |-> args]
             ELSE CoerceFrom(i + 1, kinds, params, Append(args, a))

\* lines 63-98: the checks of the envelope, by what the body is
Bodies == {"unreadable", "not json", "no id", "not 2.0", "no method", "no params", "call"}

Envelope(c, body) ==
    CASE body = "unreadable" ->
            Respond(c, jsonrpcError(-32700, "Parse error", "Error while reading request body", "null"))
      [] body = "not json" ->
            Respond(c, jsonrpcError(-32700, "Parse error", "Error parsing json request", "null"))
      [] body = "no id" ->
            Respond(c, jsonrpcError(-32600, "Invalid Request", "No or invalid 'id' in request", "null"))
      [] body = "not 2.0" ->
            Respond([c EXCEPT !.id = "1"],
                    jsonrpcError(-32600, "Invalid Request", "Version of jsonrpc is not 2.0", "1"))
      [] body = "no method" ->
            Respond([c EXCEPT !.id = "1"],
                    jsonrpcError(-32600, "Invalid Request", "No or invalid 'method' in request", "1"))
      [] body = "no params" ->
            Respond([c EXCEPT !.id = "1"],
                    jsonrpcError(-32602, "Invalid params", "No or invalid 'params' in request", "1"))
      [] OTHER -> [c EXCEPT !.id = "1"]

\* lines 100-320 up to the entry of call.Call: resolve the method, coerce the
\* params; reflect panics on a parameter index the method does not have, on
\* fewer arguments than parameters and on an argument never assigned
Dispatch(c, method, params) ==
    LET c1 == [c EXCEPT !.method = method, !.params = params]
        name == Title(method)
    IN  IF name \notin DOMAIN Operations
        THEN Respond(c1, jsonrpcError(-32601, "Method not found", "Method not found", c.id))
        ELSE LET kinds == Operations[name]
                 r == CoerceFrom(1, kinds, params, <<>>)
                 c2 == [c1 EXCEPT !.target = name, !.args = r.args]
             IN  CASE r.status = "invalid" ->
                        Respond(c2, jsonrpcError(-32602, "Invalid params",
                                    [param |-> r.index, to |-> r.to], c.id))
                   [] r.status = "panic" ->
                        Panic(c2, "reflect: Func index out of bounds")
                   [] Len(r.args) < Len(kinds) ->
                        Panic(c2, "reflect: Call with too few input arguments")
                   [] \E i \in 1..Len(r.args) : r.args[i] = Unset ->
                        Panic(c2, "reflect: Call using zero Value argument")
                   [] OTHER -> [c2 EXCEPT !.pc = "invoke"]

\* what an operation hands back to call.Call: its return values (a result with a
\* nil error, a *errors.RPCError, any other error), or a panic (line 285)
Outcomes(name) ==
    {[kind |-> "value", value |-> name]}
    \cup (IF name = "Pm_config" THEN {}
          ELSE {[kind |-> "error", message |-> "insufficient gas"]})
    \cup (IF name \in {"Pm_config", "Pm_gasRemain", "Pm_requestGas"} THEN {}
          ELSE {[kind |-> "rpcError", code |-> -32602, message |-> "Invalid params",
                 data |-> "sender"]})
    \cup (IF name = "Pm_requestGas" THEN {[kind |-> "panic"]} ELSE {})

\* mutant: an error that is no RPCError answered as a success
Returned_ErrorAsResult(c, outcome) ==
    LET c1 == [c EXCEPT !.invoked = TRUE, !.outcome = outcome]
    IN  CASE outcome.kind = "panic" -> Panic(c1, "nil pointer dereference")
          [] outcome.kind = "rpcError" ->
                Respond(c1, jsonrpcError(outcome.code, outcome.message, outcome.data, c.id))
          [] outcome.kind = "error" -> Respond(c1, jsonrpcResult(Nil, c.id))
          [] OTHER -> Respond(c1, jsonrpcResult(outcome.value, c.id))

\* lines 320-342: the envelope for what the operation returned
Returned(c, outcome) ==
    LET c1 == [c EXCEPT !.invoked = TRUE, !.outcome = outcome]
    IN  CASE outcome.kind = "panic" -> Panic(c1, "nil pointer dereference")
          [] outcome.kind = "rpcError" ->
                Respond(c1, jsonrpcError(outcome.code, outcome.message, outcome.data, c.id))
          [] outcome.kind = "error" ->
                Respond(c1, jsonrpcError(-32601, outcome.message, outcome.message, c.id))
          [] OTHER -> Respond(c1, jsonrpcResult(outcome.value, c.id))

\* handler p moves on to c; a request that has ended leaves the handler free
Proceed(p, c) ==
    /\ call' = [call EXCEPT ![p] = IF c.pc = "done" THEN IdleRequest ELSE c]
    /\ reply' = IF c.pc = "done" THEN c ELSE reply

\* lines 35-49.  Requests share nothing inside Process, so a request is taken
\* when the one before it has been answered
ProcessReceive(p) ==
    /\ \A q \in Handlers : Ready(q)
    /\ started < MaxCalls
    /\ \E post \in BOOLEAN, key \in Keys :
         LET c == [IdleRequest EXCEPT !.key = key]
         IN  Proceed(p,
                IF ~post
                THEN Respond(c, jsonrpcError(-32700, "Parse error", "POST method excepted", "null"))
                ELSE IF key = ""
                THEN Respond(c, jsonrpcError(-32700, "Key error", "No key", "null"))
                ELSE [c EXCEPT !.pc = "key"])
    /\ started' = started + 1
    /\ UNCHANGED <<store, now, audit>>

\* lines 50-60
ProcessKey(p) ==
    /\ call[p].pc = "key"
    /\ \E err \in BOOLEAN :
         Proceed(p, KeyGate(call[p], IF err THEN Nil ELSE FindByKey(call[p].key), err))
    /\ UNCHANGED <<store, now, started, audit>>

\* lines 63-320
ProcessDispatch(p) ==
    /\ call[p].pc = "body"
    /\ \E body \in Bodies :
         LET c == Envelope(call[p], body)
         IN  IF c.pc = "done" THEN Proceed(p, c)
             ELSE \E method \in WireMethods, params \in ParamLists(MaxParams) :
                    Proceed(p, Dispatch(c, method, params))
    /\ UNCHANGED <<store, now, started, audit>>

\* lines 320-342
ProcessInvoke(p) ==
    /\ call[p].pc = "invoke"
    /\ \E outcome \in Outcomes(call[p].target) :
         Proceed(p, Returned(call[p], outcome))
    /\ UNCHANGED <<store, now, started, audit>>

NextRpc ==
    \/ \E p \in Handlers : ProcessReceive(p)
    \/ \E p \in Handlers : ProcessKey(p)
    \/ \E p \in Handlers : ProcessDispatch(p)
    \/ \E p \in Handlers : ProcessInvoke(p)

SpecRpc == InitRpc /\ [][NextRpc]_vars

(* ============================== claims ================================= *)

\* the calls in view: the running ones and the one that returned last
Records == {call[p] : p \in Handlers} \cup {reply}

Remain(account) == SetString(account.RemainGas)
Used(account) == SetString(account.UsedGas)

\* C1: for every account, the total cost of the calls that returned an
\* authorization since the last grant is at most the remainingGas that grant set,
\* and is covered by the increase of the stored usedGas since that grant.  Stated
\* for the enabled accounts, which the calls may sponsor.
C1_CheckAndDeduct ==
    \A a \in Addrs :
        (store[a] # Nil /\ store[a].Enable) =>
            /\ audit[a].authSum <= audit[a].grantRemain
            /\ audit[a].authSum <= Used(store[a]) - audit[a].grantUsed

\* C2: no step lowers the stored usedGas of an account (stated for the enabled
\* accounts).
C2_UsedGasMonotone ==
    [][\A a \in Addrs :
         (store[a] # Nil /\ store[a].Enable) =>
            store'[a] # Nil /\ Used(store'[a]) >= Used(store[a])]_vars

\* C3: the save of a sponsored call stores remainingGas = the balance the call
\* checked - totalCost, with totalCost = (preVerificationGas + verificationGasLimit
\* + callGasLimit) * maxFeePerGas <= that balance; no step stores a negative
\* remainingGas.
C3_Deduction ==
    [][/\ \A p \in Handlers :
            call[p].pc = "sp_save" /\ call'[p].pc = "sp_hash" =>
                LET c == call[p]
                    before == Remain(c.read)
                IN  /\ c.totalGas = (52304 + 100000 + 33100) * c.fee
                    /\ c.totalGas <= before
                    /\ Remain(store'[c.addr]) = before - c.totalGas
       /\ \A a \in Addrs :
            (store'[a] # store[a] /\ store'[a] # Nil) => Remain(store'[a]) >= 0]_vars

\* C3 witness: a sponsored call has returned an authorization and the stored
\* balance is the balance it checked less its cost
C3_Witness ==
    /\ reply.result = "authorization"
    /\ reply.totalGas > 0
    /\ Remain(store[reply.addr]) = Remain(reply.read) - reply.totalGas

\* the step of handler p is a successful grant to address a
GrantStep(p, a) ==
    /\ call[p].pc = "rg_save" /\ call[p].addr = a
    /\ call'[p].pc = "idle"
    /\ reply'.result = "granted"

\* C4: a step raises the stored remainingGas of an account only if it is a
\* successful Pm_requestGas grant, which sets it to a tier ceiling (stated for the
\* enabled accounts).
C4_RemainRaisedByGrantOnly ==
    [][\A a \in Addrs :
         (/\ store[a] # Nil /\ store[a].Enable
          /\ store'[a] # Nil /\ Remain(store'[a]) > Remain(store[a])) =>
            /\ \E p \in Handlers : GrantStep(p, a)
            /\ Remain(store'[a]) \in {CreateGas, MaxGas, MaxVipGas}]_vars

\* C5: a Pm_sponsorUserOperation call that found no account, or a disabled one,
\* is refused: it returns no authorization and has saved nothing.
C5_DisabledRefused ==
    (/\ reply.method = "pm_sponsorUserOperation"
     /\ reply.result # "invalid user operation"
     /\ (reply.read = Nil \/ ~reply.read.Enable))
        => reply.result # "authorization" /\ reply.saves = 0

\* C6: a sponsored call asks for the hash only after its save succeeded, signs
\* only after the hash, returns an authorization only after both; a call whose
\* save failed has asked for no hash, signed nothing and returns an error.
C6_SaveBeforeSign ==
    \A c \in Records :
        c.method = "pm_sponsorUserOperation" =>
            /\ c.pc = "sp_hash" => c.saves = 1
            /\ c.hashed => c.saves = 1
            /\ c.signed => c.hashed
            /\ c.result = "authorization" => c.signed /\ c.saves = 1
            /\ c.saves = 0 => ~c.hashed /\ ~c.signed /\ c.result # "authorization"

\* C6 witness: an authorization has been returned after a successful save
C6_Witness ==
    reply.result = "authorization" /\ reply.saves = 1 /\ reply.hashed /\ reply.signed

\* the step receives a sponsored call and refuses it for insufficient gas
RefusalStep ==
    /\ started' = started + 1
    /\ reply'.method = "pm_sponsorUserOperation"
    /\ reply'.result = "insufficient gas"

\* C7: a sponsored call that returns an authorization has saved exactly once, a
\* refused one never; a call whose totalCost exceeds the remainingGas it read is
\* refused with the insufficient-gas error, and the refusing step leaves every
\* stored account as it was.
C7_OneSaveOrNone ==
    [][/\ reply'.method = "pm_sponsorUserOperation" =>
            /\ reply'.result = "authorization" => reply'.saves = 1
            /\ reply'.result \in {"insufficient gas", "invalid user operation"}
                  => reply'.saves = 0
            /\ (reply'.read # Nil /\ reply'.totalGas > Remain(reply'.read))
                  => reply'.result = "insufficient gas"
       /\ RefusalStep => store' = store]_vars

\* C7 witness: a call costing more than the balance it read has been refused
C7_Witness ==
    /\ reply.method = "pm_sponsorUserOperation"
    /\ reply.read # Nil
    /\ reply.totalGas > Remain(reply.read)
    /\ reply.result = "insufficient gas"
    /\ store[reply.addr] = reply.read

\* the call c of a caller without token has checked an existing account whose
\* last grant is less than 86400 s old
RateLimitedCase(c) ==
    /\ c.method = "pm_requestGas"
    /\ c.pc \in {"rg_save", "done"}
    /\ c.result # "query account error"
    /\ c.lastVip = -1
    /\ c.read # Nil
    /\ c.read.LastRequest + 86400 > c.checkedAt

\* C8 as stated: such a call returns the frequent-request error whatever the
\* account's other fields, and saves nothing.
C8_AlwaysFrequentRequest ==
    \A c \in Records :
        RateLimitedCase(c) =>
            c.pc = "done" /\ c.result = "frequent requests" /\ c.saves = 0

\* C8 as amended: such a call saves nothing and returns the frequent-request
\* error when the account is enabled, the account-disabled error when it is not.
C8_RefusedUnchanged ==
    \A c \in Records :
        RateLimitedCase(c) =>
            /\ c.pc = "done"
            /\ c.saves = 0
            /\ c.result = IF c.read.Enable THEN "frequent requests"
                          ELSE "account disabled"

\* C8 witness: a rate-limited call on an enabled account has been refused
C8_Witness ==
    /\ RateLimitedCase(reply)
    /\ reply.read.Enable
    /\ reply.result = "frequent requests"
    /\ store[reply.addr] = reply.read

\* the tier of the call c
Tier(c) ==
    IF c.lastVip # -1 THEN MaxVipGas
    ELSE IF c.read = Nil THEN CreateGas
    ELSE MaxGas

\* C9: a successful grant stores remainingGas = maxVipGas for a token holder,
\* createGas for a caller without token and without account, maxGas for a caller
\* without token whose account exists.
C9_GrantIsTier ==
    [][\A p \in Handlers, a \in Addrs :
         GrantStep(p, a) => store'[a].RemainGas = BigString(Tier(call[p]))]_vars

\* C9 witness: a token holder without account has been granted maxVipGas
C9_Witness ==
    /\ reply.result = "granted"
    /\ reply.lastVip # -1
    /\ reply.read = Nil
    /\ Remain(store[reply.addr]) = MaxVipGas

\* C10: a Pm_requestGas call by the holder of a token to which another address
\* is linked with a grant less than 86400 s old is refused and saves nothing.
C10_VipSlotPerToken ==
    (/\ reply.method = "pm_requestGas"
     /\ reply.lastVip # -1
     /\ reply.slotTaken)
        => reply.result # "granted" /\ reply.saves = 0

\* the step is taken by a Pm_requestGas call that read a disabled account
DisabledRequestStep(p) ==
    /\ call[p].method = "pm_requestGas"
    /\ call[p].read # Nil
    /\ ~call[p].read.Enable
    /\ call'[p] # call[p]

\* C11: a Pm_requestGas call that read a disabled account never reaches the save:
\* whatever token the caller holds and whatever the time, it returns an error, has
\* saved nothing, and its steps leave every stored account as it was; and no step
\* of any call turns a stored disabled account into an enabled one.
C11_DisabledNeverGranted ==
    [][/\ \A p \in Handlers :
            DisabledRequestStep(p) =>
                /\ store' = store
                /\ call'[p].pc \in {"rg_findvip", "idle"}
                /\ call'[p].pc = "idle" =>
                      /\ reply'.method = "pm_requestGas"
                      /\ reply'.result \in {"account disabled",
                                            "frequent requests with NFT",
                                            "query account by vip id error"}
                      /\ reply'.saves = 0
       /\ \A a \in Addrs :
            (store[a] # Nil /\ ~store[a].Enable) =>
                store'[a] # Nil /\ ~store'[a].Enable]_vars

\* C11 witness: a token holder whose disabled account was granted a full window
\* ago has been refused, and the account is as it was
C11_Witness ==
    /\ reply.method = "pm_requestGas"
    /\ reply.read # Nil
    /\ ~reply.read.Enable
    /\ reply.lastVip # -1
    /\ reply.checkedAt >= reply.read.LastRequest + RequestWindow
    /\ reply.result = "account disabled"
    /\ reply.saves = 0
    /\ store[reply.addr] = reply.read

\* the step receives a Pm_gasRemain call, which returns within the step: a call
\* is received, and either reply changes to it or, the call returning what the
\* call before it returned, nothing else changes
GasRemainReturn ==
    /\ started' = started + 1
    /\ reply'.method = "pm_gasRemain"
    /\ (reply' # reply \/ call' = call)

\* C12: a Pm_gasRemain call leaves every stored account as it was; for an address
\* without account and for a disabled account it returns remain "0", total_used
\* "0", last_request 0; for an enabled account it returns the stored remainingGas,
\* usedGas and lastRequestTime.
C12_GasRemainPureRead ==
    [][GasRemainReturn =>
         /\ store' = store
         /\ reply'.saves = 0
         /\ reply'.result = "gas remain" =>
               LET account == store[reply'.addr]
               IN  IF account = Nil \/ ~account.Enable
                   THEN /\ reply'.gasRemain.Remain = <<48>>
                        /\ reply'.gasRemain.Used = <<48>>
                        /\ reply'.gasRemain.LastRequest = 0
                   ELSE /\ reply'.gasRemain.Remain = account.RemainGas
                        /\ reply'.gasRemain.Used = account.UsedGas
                        /\ reply'.gasRemain.LastRequest = account.LastRequest]_vars

\* C12 witness: a disabled account that holds gas has been reported as zeros
C12_Witness ==
    /\ reply.method = "pm_gasRemain"
    /\ reply.result = "gas remain"
    /\ store[reply.addr] # Nil
    /\ ~store[reply.addr].Enable
    /\ Remain(store[reply.addr]) > 0
    /\ reply.gasRemain = GasRemain(<<48>>, <<48>>, 0)

(* ------------------------ claims on the dispatcher ---------------------- *)

\* the request c was answered with exactly one error envelope of this code
IsError(c, code) ==
    /\ c.responses = 1
    /\ c.response # Nil
    /\ "error" \in DOMAIN c.response
    /\ c.response.error.code = code

\* the request c was answered with exactly one success envelope
IsSuccess(c) ==
    /\ c.responses = 1
    /\ c.response # Nil
    /\ "error" \notin DOMAIN c.response

\* the declared shapes named by C13, and the wire values each one takes
SupportedKinds == {"Float32", "Float64", "String", "Map", "Slice"} \cup IntKinds
Matches(kind, wire) ==
    CASE kind \in {"Float32", "Float64"} \cup IntKinds -> wire = "number"
      [] kind = "String" -> wire = "string"
      [] kind = "Map" -> wire = "object"
      [] kind = "Slice" -> wire = "array"
      [] OTHER -> TRUE

\* the request c got as far as resolving its method
Dispatched(c) == c.pc = "done" /\ c.method # ""

\* the params of c are as many as the parameters of its operation, and position i
\* is the first whose value does not fit its parameter
FirstMismatch(c, i) ==
    LET kinds == Operations[Title(c.method)]
    IN  /\ Len(c.params) = Len(kinds)
        /\ kinds[i] \in SupportedKinds
        /\ ~Matches(kinds[i], c.params[i])
        /\ \A j \in 1..(i - 1) : Matches(kinds[j], c.params[j])

\* C13: a request whose method resolves to no operation is answered -32601 and
\* invokes nothing; a request whose value at position i does not fit the numeric,
\* string, map or slice parameter i is answered -32602 with data naming i, and the
\* operation is not invoked.
C13_MethodAndParamErrors ==
    Dispatched(reply) =>
        /\ Title(reply.method) \notin DOMAIN Operations =>
              IsError(reply, -32601) /\ ~reply.invoked
        /\ Title(reply.method) \in DOMAIN Operations =>
              \A i \in 1..Len(reply.params) :
                  FirstMismatch(reply, i) =>
                      /\ IsError(reply, -32602)
                      /\ reply.response.error.data.param = i - 1
                      /\ ~reply.invoked

\* position i of the params of c meets a parameter of a kind without coercion path
NoCoercionPath(c, i) ==
    LET kinds == Operations[Title(c.method)]
    IN  /\ i <= Len(kinds)
        /\ kinds[i] \notin SupportedKinds \cup {"Interface"}
        /\ \A j \in 1..(i - 1) : Matches(kinds[j], c.params[j])

\* C14: a request to an operation with a parameter of a kind the switch has no
\* branch for is answered -32603, and the operation is not invoked.
C14_UnsupportedKindFailsClosed ==
    (Dispatched(reply) /\ Title(reply.method) \in DOMAIN Operations) =>
        \A i \in 1..Len(reply.params) :
            NoCoercionPath(reply, i) => IsError(reply, -32603) /\ ~reply.invoked

\* the key of request c is empty, unknown, disabled, or its lookup failed
KeyRefused(c) ==
    \/ c.key = ""
    \/ c.keyErr
    \/ FindByKey(c.key) = Nil
    \/ ~FindByKey(c.key).Enable

\* C15: a request whose key is empty, unknown, disabled, or whose lookup failed
\* is answered with an error envelope before its body is read, and invokes
\* nothing; a request reads its body, resolves a method or invokes an operation
\* only after its key was found enabled.
C15_KeyGateFirst ==
    \A c \in Records :
        /\ (c.pc = "done" /\ KeyRefused(c)) =>
              /\ IsError(c, -32700)
              /\ c.method = ""
              /\ c.target = ""
              /\ ~c.invoked
        /\ (c.pc \in {"body", "invoke"} \/ c.method # "" \/ c.invoked) =>
              /\ ~c.keyErr
              /\ c.apiKey # Nil
              /\ c.apiKey = FindByKey(c.key)
              /\ c.apiKey.Enable

\* C15 witness: a request with a disabled key has been answered "Key error"
C15_Witness ==
    /\ reply.pc = "done"
    /\ reply.key = "k2"
    /\ ~reply.keyErr
    /\ IsError(reply, -32700)
    /\ reply.response.error.message = "Key error"
    /\ ~reply.invoked

\* C16: every request that ended was answered with exactly one envelope, a
\* success envelope with a result or an error envelope with code, message and
\* data, whatever the length of its params.
C16_OneEnvelope ==
    reply.pc = "done" =>
        /\ reply.responses = 1
        /\ reply.panic = ""
        /\ \/ IsSuccess(reply) /\ "result" \in DOMAIN reply.response
           \/ /\ "error" \in DOMAIN reply.response
              /\ DOMAIN reply.response.error = {"code", "message", "data"}

HexValue(ch) == IF ch < 58 THEN ch - 48 ELSE ch - 87

\* the bytes a "0x..." string denotes
Decode(str) ==
    [i \in 1..((Len(str) - 2) \div 2) |->
        16 * HexValue(str[2 * i + 1]) + HexValue(str[2 * i + 2])]

\* C17: the paymasterAndData of every authorization returned denotes the bytes
\* paymaster address || validUntil and validAfter as two 32-byte words ||
\* signature, with validUntil - validAfter = 86400, and its first 84 bytes are
\* those of the placeholder with the zero signature that was hashed.
C17_AuthorizationBytes ==
    reply.result = "authorization" =>
        LET timeRange == BigEndian(reply.validUntil, 32) \o BigEndian(reply.validAfter, 32)
        IN  /\ reply.validUntil - reply.validAfter = 86400
            /\ reply.paymasterAndData[1] = 48 /\ reply.paymasterAndData[2] = 120
            /\ Len(reply.signature) = 65
            /\ Decode(reply.paymasterAndData) = Contract \o timeRange \o reply.signature
            /\ reply.placeholder = Contract \o timeRange \o [i \in 1..65 |-> 0]

\* C17 witness: an authorization valid from time 86399 has been returned, with
\* a signature that is not the placeholder's
C17_Witness ==
    /\ reply.result = "authorization"
    /\ reply.validAfter = 86399
    /\ reply.validUntil = 172799
    /\ Len(reply.paymasterAndData) = 300
    /\ reply.signature # emptySignature

\* C19: a successful grant to an address comes at least 86400 s after the grant
\* to that address before it.
C19_GrantsOneWindowApart ==
    [][\A p \in Handlers, a \in Addrs :
         (GrantStep(p, a) /\ audit[a].grantAt # -1) =>
            now - audit[a].grantAt >= 86400]_vars

\* the step of handler p ends a sponsored call whose hash or signature failed
LateFailureStep(p) ==
    /\ call[p].pc = "sp_hash"
    /\ call'[p].pc = "idle"
    /\ reply'.result # "authorization"

\* C20: a sponsored call has saved its deduction before it builds the time range,
\* asks for the hash or signs; when the hash or the signature fails it returns an
\* error and no authorization, and the failing step leaves the store as it was:
\* the record the call saved, with usedGas raised and remainingGas lowered by
\* totalCost, is not restored.
C20_NoRollback ==
    [][\A p \in Handlers :
         /\ call'[p].pc = "sp_hash" =>
               /\ call'[p].saves = 1
               /\ ~call'[p].hashed /\ ~call'[p].signed
         /\ (call[p].pc = "sp_save" /\ call'[p].pc = "sp_hash") =>
               store'[call[p].addr] = call[p].account
         /\ LateFailureStep(p) =>
               /\ store' = store
               /\ reply'.result \in {"get hash error", "sign error"}
               /\ reply'.saves = 1
               /\ reply'.totalGas > 0
               /\ Used(reply'.account) = Used(reply'.read) + reply'.totalGas
               /\ Remain(reply'.account) = Remain(reply'.read) - reply'.totalGas]_vars

\* C20 witness: a call whose signature failed has returned, and the store holds
\* the account with its deduction
C20_Witness ==
    /\ reply.result = "sign error"
    /\ reply.saves = 1
    /\ reply.totalGas > 0
    /\ store[reply.addr] = reply.account
    /\ Used(store[reply.addr]) = Used(reply.read) + reply.totalGas
    /\ Remain(store[reply.addr]) = Remain(reply.read) - reply.totalGas

====
